---- MODULE Spec2Model ----
(***************************************************************************)
(* csharpier-action: the formatting-violation reconciliation engine.       *)
(*                                                                         *)
(* Files are sequences of lines; a line is a natural number (its text).    *)
(* Two variants of the comment manager are in the sources and both are     *)
(* modelled; the variable impl says which one a behaviour runs:            *)
(*   "cm"  src/src/comment-manager.ts (lines 1-372): one FormattingHunk    *)
(*         per diff hunk, delete every unresolved comment then re-create;  *)
(*   "p2"  src/unnamed/part_002: one FormattingHunk per change block,      *)
(*         update in place / skip when unchanged / create.                 *)
(***************************************************************************)
EXTENDS Integers, Sequences, FiniteSets, TLC

(***************************************************************************)
(* Bounds of the model and constants of the program.                       *)
(***************************************************************************)
\* longest edit script (original and formatted file together) the hunk
\* extractor is applied to
MaxLines == 9

\* structuredPatch(..., { context: 3 })
DiffContext == 3

\* const contextBefore = 3 / const contextAfter = 3 (part_002)
contextBefore == 3
contextAfter == 3

Impls == {"cm", "p2"}

(***************************************************************************)
(* Small helpers.                                                          *)
(***************************************************************************)
Min(S) == CHOOSE x \in S : \A y \in S : x <= y
Max(S) == CHOOSE x \in S : \A y \in S : x >= y
MinOf(a, b) == IF a <= b THEN a ELSE b
MaxOf(a, b) == IF a >= b THEN a ELSE b
Range(s) == {s[i] : i \in 1..Len(s)}

RECURSIVE Flatten(_)
Flatten(ss) == IF ss = <<>> THEN <<>> ELSE Head(ss) \o Flatten(Tail(ss))

\* the elements of the set of indices S of sequence s, in order
RECURSIVE Pick(_, _)
Pick(s, S) ==
    IF S = {} THEN <<>>
    ELSE LET i == Min(S) IN <<s[i]>> \o Pick(s, S \ {i})

(***************************************************************************)
(* The line diff of the 'diff' library, as used through structuredPatch.   *)
(* Domain of the model: a line occurs at most once in a file and the lines *)
(* the two files share keep their order; there the shortest edit script is *)
(* unique up to the order inside a change block, and the library emits the *)
(* removed lines of a block before its added lines.                        *)
(***************************************************************************)
Line(tag, text) == [tag |-> tag, text |-> text]

RECURSIVE diffLines(_, _)
diffLines(o, f) ==
    IF o = <<>> THEN [i \in 1..Len(f) |-> Line("+", f[i])]
    ELSE IF f = <<>> THEN [i \in 1..Len(o) |-> Line("-", o[i])]
    ELSE IF Head(o) = Head(f)
         THEN <<Line(" ", Head(o))>> \o diffLines(Tail(o), Tail(f))
    ELSE IF Head(o) \notin Range(f)
         THEN <<Line("-", Head(o))>> \o diffLines(Tail(o), f)
    ELSE IF Head(f) \notin Range(o)
         THEN <<Line("+", Head(f))>> \o diffLines(o, Tail(f))
    ELSE <<Line("-", Head(o))>> \o diffLines(Tail(o), f)

isContext(l) == l.tag = " "
isAddition(l) == l.tag = "+"
isDeletion(l) == l.tag = "-"
isChange(l) == isAddition(l) \/ isDeletion(l)

\* number of lines of d[1..n] that exist in the new (resp. old) file
NewCount(d, n) == Cardinality({i \in 1..n : isContext(d[i]) \/ isAddition(d[i])})
OldCount(d, n) == Cardinality({i \in 1..n : isContext(d[i]) \/ isDeletion(d[i])})

(***************************************************************************)
(* structuredPatch(path, path, original, formatted, '', '', {context: 3}): *)
(* changes closer than 2*context unchanged lines share a hunk, and a hunk  *)
(* carries up to context unchanged lines before and after.                 *)
(***************************************************************************)
structuredPatch(o, f) ==
    LET d == diffLines(o, f)
        n == Len(d)
        CI == {i \in 1..n : isChange(d[i])}
        firsts == {i \in CI : \A j \in CI : ~(i - (2 * DiffContext + 1) <= j /\ j < i)}
        lasts == {i \in CI : \A j \in CI : ~(i < j /\ j <= i + (2 * DiffContext + 1))}
        hunkOf(s) ==
            LET e == Min({l \in lasts : l >= s})
                from == MaxOf(1, s - DiffContext)
                to == MinOf(n, e + DiffContext)
                ls == SubSeq(d, from, to)
            IN  [oldStart |-> OldCount(d, from - 1) + 1,
                 oldLines |-> OldCount(ls, Len(ls)),
                 newStart |-> NewCount(d, from - 1) + 1,
                 newLines |-> NewCount(ls, Len(ls)),
                 lines |-> ls]
        RECURSIVE build(_)
        build(S) == IF S = {} THEN <<>>
                    ELSE LET s == Min(S) IN <<hunkOf(s)>> \o build(S \ {s})
    IN  build(firsts)

(***************************************************************************)
(* generateFormattingHunks, src/src/comment-manager.ts: per diff hunk, the *)
(* added lines between its first and its last changed line, anchored at    *)
(* the new-file line of the first changed line.  Indices are 1-based here. *)
(***************************************************************************)
FormattingHunk(lineNumber, content, h) ==
    [lineNumber |-> lineNumber,
     content |-> content,
     originalLineRange |-> [start |-> h.oldStart, end |-> h.oldStart + h.oldLines - 1]]

texts(ls) == [i \in 1..Len(ls) |-> ls[i].text]

\* lines.join('\n'): a string is held as the list of the lines it splits into, the
\* empty string being one empty line (text 0)
join(lines) == IF Len(lines) = 0 THEN <<0>> ELSE lines

hunkOfDiffHunk(h) ==
    LET L == h.lines
        CI == {i \in 1..Len(L) : isChange(L[i])}
    IN  IF CI = {} THEN <<>>
        ELSE LET firstChangeIndex == Min(CI)
                 lastChangeIndex == Max(CI)
                 firstChangeLine == h.newStart + NewCount(L, firstChangeIndex - 1)
                 formattedLines ==
                     texts(SelectSeq(SubSeq(L, firstChangeIndex, lastChangeIndex), isAddition))
             IN  IF formattedLines = <<>> THEN <<>>
                 ELSE <<FormattingHunk(firstChangeLine, join(formattedLines), h)>>

generateFormattingHunks(originalText, formattedText) ==
    LET patch == structuredPatch(originalText, formattedText)
    IN  Flatten([k \in 1..Len(patch) |-> hunkOfDiffHunk(patch[k])])

(***************************************************************************)
(* generateFormattingHunks, src/unnamed/part_002: one FormattingHunk per   *)
(* change block of a diff hunk, with up to 3 lines of context around it.   *)
(***************************************************************************)
\* the change blocks of a diff hunk: [startIndex, endIndex] of every maximal
\* run of +/- lines (the loop of lines 71-106)
changeBlocks(L) ==
    LET starts == {i \in 1..Len(L) : isChange(L[i]) /\ (i = 1 \/ ~isChange(L[i - 1]))}
        endOf(s) == Min({e \in s..Len(L) : isChange(L[e]) /\ (e = Len(L) \/ ~isChange(L[e + 1]))})
        RECURSIVE build(_)
        build(S) == IF S = {} THEN <<>>
                    ELSE LET s == Min(S)
                         IN  <<[startIndex |-> s, endIndex |-> endOf(s)]>> \o build(S \ {s})
    IN  build(starts)

\* variant: four lines of context before the block
windowStart_wide(L, change) == MaxOf(1, change.startIndex - (contextBefore + 1))

\* the window of a change block (lines 111-117)
windowStart(L, change) == MaxOf(1, change.startIndex - contextBefore)
windowEnd(L, change) == MinOf(Len(L), change.endIndex + contextAfter)

\* variant: the anchor is the first line of the change block itself
subHunk_ownStart(h, change) ==
    LET L == h.lines
        startIndex == windowStart(L, change)
        endIndex == windowEnd(L, change)
        changeStartLine == h.newStart + NewCount(L, change.startIndex - 1)
        formattedLines ==
            texts(SelectSeq(SubSeq(L, startIndex, endIndex),
                            LAMBDA l : isContext(l) \/ isAddition(l)))
    IN  FormattingHunk(changeStartLine, join(formattedLines), h)

subHunk(h, change) ==
    LET L == h.lines
        startIndex == windowStart(L, change)
        endIndex == windowEnd(L, change)
        \* the first changed line inside the window (lines 121-141)
        i == Min({k \in startIndex..endIndex : isChange(L[k])})
        firstChangeLineInSubHunk == h.newStart + NewCount(L, i - 1)
        formattedLines ==
            texts(SelectSeq(SubSeq(L, startIndex, endIndex),
                            LAMBDA l : isContext(l) \/ isAddition(l)))
    IN  FormattingHunk(firstChangeLineInSubHunk, join(formattedLines), h)

generateFormattingHunks_p2(originalText, formattedText) ==
    LET patch == structuredPatch(originalText, formattedText)
        perHunk(h) == LET changes == changeBlocks(h.lines)
                      IN  [c \in 1..Len(changes) |-> subHunk(h, changes[c])]
    IN  Flatten([k \in 1..Len(patch) |-> perHunk(patch[k])])

extract(i, originalText, formattedText) ==
    IF i = "cm" THEN generateFormattingHunks(originalText, formattedText)
    ELSE generateFormattingHunks_p2(originalText, formattedText)

(***************************************************************************)
(* findLineInPRDiff.  A patch is held as what parseDiff returns for it:    *)
(* a sequence of files, a file being its sequence of chunks                *)
(* [newStart, changes], a change being "add", "del" or "normal".           *)
(***************************************************************************)
RECURSIVE walkChanges(_, _, _)
walkChanges(changes, currentLine, targetLine) ==
    IF changes = <<>> THEN 0
    ELSE IF Head(changes) = "add" \/ Head(changes) = "normal"
         THEN IF currentLine = targetLine THEN currentLine
              ELSE walkChanges(Tail(changes), currentLine + 1, targetLine)
         ELSE walkChanges(Tail(changes), currentLine, targetLine)

RECURSIVE walkChunks(_, _)
walkChunks(chunks, targetLine) ==
    IF chunks = <<>> THEN 0
    ELSE LET r == walkChanges(Head(chunks).changes, Head(chunks).newStart, targetLine)
         IN  IF r # 0 THEN r ELSE walkChunks(Tail(chunks), targetLine)

\* variant: the anchor is taken as it is, the patch is not consulted
findLineInPRDiff_unchecked(parsed, targetLine) == targetLine

\* variant: every file of the patch is consulted
findLineInPRDiff_anyFile(parsed, targetLine) ==
    IF \E f \in 1..Len(parsed) : walkChunks(parsed[f], targetLine) # 0 THEN targetLine ELSE 0

findLineInPRDiff(parsed, targetLine) ==
    IF Len(parsed) = 0 THEN 0 ELSE walkChunks(parsed[1], targetLine)

(***************************************************************************)
(* The comment store (GitHub's review comments, reached through            *)
(* OctokitGitHubAPI).  A comment is [id, path, body, line, original_line,  *)
(* in_reply_to_id]; 0 stands for an undefined number.  A reply is a        *)
(* comment of its own whose in_reply_to_id is the comment it answers.      *)
(***************************************************************************)
Undefined == 0

COMMENT_MARKER == "<!-- csharpier-action -->"

\* a body that is null (ReviewComment.body: string | null)
NullBody == [null |-> TRUE]

\* variant: every comment counts as one of the action's
includesMarker_any(body) == TRUE

\* comment.body?.includes(COMMENT_MARKER)
includesMarker(body) == body # NullBody /\ body.marker = COMMENT_MARKER

ReviewComment(id, path, body, line, inReplyTo) ==
    [id |-> id, path |-> path, body |-> body, line |-> line,
     original_line |-> line, in_reply_to_id |-> inReplyTo]

createReviewComment(store, id, path, body, line) ==
    Append(store, ReviewComment(id, path, body, line, Undefined))

updateReviewComment(store, comment_id, body) ==
    [k \in 1..Len(store) |->
        IF store[k].id = comment_id THEN [store[k] EXCEPT !.body = body] ELSE store[k]]

deleteReviewComment(store, comment_id) ==
    SelectSeq(store, LAMBDA c : c.id # comment_id)

createReplyForReviewComment(store, id, comment_id, body) ==
    LET parent == CHOOSE c \in Range(store) : c.id = comment_id
    IN  Append(store, [id |-> id, path |-> parent.path, body |-> body, line |-> parent.line,
                       original_line |-> parent.original_line, in_reply_to_id |-> comment_id])

\* the body of a violation comment (the template of createViolationComments)
explanation(i) ==
    IF i = "cm" THEN "**CSharpier**: This section is not formatted correctly."
    ELSE "This section is not formatted according to CSharpier rules."

\* variant: the template lacks the marker
violationBody_unmarked(i, hunk, filePath) ==
    [marker |-> "", text |-> explanation(i), suggestion |-> hunk.content, fix |-> filePath]

violationBody(i, hunk, filePath) ==
    [marker |-> COMMENT_MARKER, text |-> explanation(i),
     suggestion |-> hunk.content, fix |-> filePath]

\* the body of the reply of resolveFixedComments
fixedBody ==
    [marker |-> "", text |-> "Formatting has been fixed.", suggestion |-> <<>>, fix |-> ""]

\* the body of a comment a person wrote, quoting the marker or not
userBody(quotesMarker) ==
    [marker |-> IF quotesMarker THEN COMMENT_MARKER ELSE "",
     text |-> "review remark", suggestion |-> <<>>, fix |-> ""]

(***************************************************************************)
(* getExistingComments: the fetched comments that carry the marker.        *)
(***************************************************************************)
lineOf(comment) ==
    IF comment.line # Undefined THEN comment.line
    ELSE IF comment.original_line # Undefined THEN comment.original_line
    ELSE 0

\* variant: the test on in_reply_to_id is the wrong way round
isResolvedOf_negated(comment) == comment.in_reply_to_id = Undefined

isResolvedOf(comment) == comment.in_reply_to_id # Undefined

ViolationComment(comment) ==
    [id |-> comment.id, path |-> comment.path, body |-> comment.body,
     isResolved |-> isResolvedOf(comment), line |-> lineOf(comment)]

getExistingComments(store) ==
    LET actionComments == SelectSeq(store, LAMBDA c : includesMarker(c.body))
    IN  [k \in 1..Len(actionComments) |-> ViolationComment(actionComments[k])]

(***************************************************************************)
(* The run-time effect of the comment manager on the store.  S is          *)
(* [comments, nextCommentId, calls]: the store, the id the store gives the *)
(* next comment, and the mutation calls issued so far in this run.         *)
(***************************************************************************)
Call(op, id, path, line) == [op |-> op, id |-> id, path |-> path, line |-> line, ok |-> TRUE]

\* the same call, rejected by the comment store
Rejected(call) == [call EXCEPT !.ok = FALSE]

\* no call of the run is rejected, every file is listed and readable, the
\* formatter has an output for every file
NoFaults == [calls |-> {}, unlisted |-> {}, unreadable |-> {}, noOutput |-> {}]

\* the next mutation call of the run is one the store rejects
rejects(S) == (Len(S.calls) + 1) \in S.faults.calls

\* the call throws: nothing is stored, the exception is in flight
throw(S, call) == [S EXCEPT !.calls = Append(@, Rejected(call)), !.threw = TRUE]

\* a catch block: the exception is logged as a warning and dropped
catch(S) == [S EXCEPT !.threw = FALSE]

hasId(store, id) == \E k \in 1..Len(store) : store[k].id = id

\* variant: the comment is put one line below the anchor
doCreate_lineBelow(S, path, body, line) ==
    IF rejects(S) THEN throw(S, Call("create", Undefined, path, line + 1))
    ELSE [S EXCEPT !.comments = Append(@, [id |-> S.nextCommentId, path |-> path,
                                           body |-> body, line |-> line + 1,
                                           original_line |-> line + 1,
                                           in_reply_to_id |-> 0]),
                   !.nextCommentId = @ + 1,
                   !.calls = Append(@, Call("create", S.nextCommentId, path, line + 1))]

\* one api.createReviewComment call
doCreate(S, path, body, line) ==
    IF rejects(S) THEN throw(S, Call("create", Undefined, path, line))
    ELSE [S EXCEPT !.comments = createReviewComment(@, S.nextCommentId, path, body, line),
                   !.nextCommentId = @ + 1,
                   !.calls = Append(@, Call("create", S.nextCommentId, path, line))]

\* one api.deleteReviewComment call (a comment that is gone: the call fails,
\* the failure is caught and logged)
doDelete(S, comment) ==
    IF rejects(S) \/ ~hasId(S.comments, comment.id)
    THEN catch(throw(S, Call("delete", comment.id, comment.path, comment.line)))
    ELSE [S EXCEPT !.comments = deleteReviewComment(@, comment.id),
                   !.calls = Append(@, Call("delete", comment.id, comment.path, comment.line))]

\* one api.updateReviewComment call
doUpdate(S, comment, body) ==
    IF rejects(S) \/ ~hasId(S.comments, comment.id)
    THEN throw(S, Call("update", comment.id, comment.path, comment.line))
    ELSE [S EXCEPT !.comments = updateReviewComment(@, comment.id, body),
                   !.calls = Append(@, Call("update", comment.id, comment.path, comment.line))]

\* one api.createReplyForReviewComment call
doReply(S, comment) ==
    IF rejects(S) \/ ~hasId(S.comments, comment.id)
    THEN throw(S, Call("reply", comment.id, comment.path, comment.line))
    ELSE [S EXCEPT !.comments = createReplyForReviewComment(@, S.nextCommentId, comment.id,
                                                            fixedBody),
                   !.nextCommentId = @ + 1,
                   !.calls = Append(@, Call("reply", comment.id, comment.path, comment.line))]

(***************************************************************************)
(* createViolationComments, src/src/comment-manager.ts: delete every       *)
(* unresolved existing comment of the file, then create one comment per    *)
(* hunk that is visible in the PR patch.                                   *)
(***************************************************************************)
\* variant: the filter keeps the resolved comments instead
unresolvedOf_resolvedOnly(existingComments) == SelectSeq(existingComments, LAMBDA c : c.isResolved)

unresolvedOf(existingComments) == SelectSeq(existingComments, LAMBDA c : ~c.isResolved)

\* variant: the deletion loop is left out
deleteEach_none(S, unresolvedComments) == S

RECURSIVE deleteEach(_, _)
deleteEach(S, unresolvedComments) ==
    IF unresolvedComments = <<>> THEN S
    ELSE deleteEach(doDelete(S, Head(unresolvedComments)), Tail(unresolvedComments))

RECURSIVE createEach(_, _, _, _, _)
createEach(S, i, hs, parsed, filePath) ==
    IF hs = <<>> \/ S.threw THEN S
    ELSE LET hunk == Head(hs)
             lineNumber == findLineInPRDiff(parsed, hunk.lineNumber)
         IN  IF lineNumber = 0 THEN createEach(S, i, Tail(hs), parsed, filePath)
             ELSE createEach(doCreate(S, filePath, violationBody(i, hunk, filePath), lineNumber),
                             i, Tail(hs), parsed, filePath)

\* variant: the file is reconciled whether or not it is listed, has a patch
\* and can be read
createViolationComments_unguarded(S, file, originalText, formattedText, filePath, existingComments) ==
    LET hs == generateFormattingHunks(originalText, formattedText)
    IN  IF Len(hs) = 0 THEN S
        ELSE catch(createEach(deleteEach(S, unresolvedOf(existingComments)),
                              "cm", hs, file.patch, filePath))

createViolationComments(S, file, originalText, formattedText, filePath, existingComments) ==
    IF ~file.inPR \/ filePath \in S.faults.unlisted \/ ~file.hasPatch THEN S
    ELSE IF filePath \in S.faults.unreadable THEN S
    ELSE LET hs == generateFormattingHunks(originalText, formattedText)
         IN  IF Len(hs) = 0 THEN S
             ELSE catch(createEach(deleteEach(S, unresolvedOf(existingComments)),
                                   "cm", hs, file.patch, filePath))

(***************************************************************************)
(* createViolationComments, src/unnamed/part_002: per visible hunk, skip   *)
(* when an unresolved comment at that line has the same body, update it    *)
(* when its body differs, create one when there is none.                   *)
(***************************************************************************)
findExisting(existingComments, lineNumber) ==
    SelectSeq(existingComments, LAMBDA c : c.line = lineNumber /\ ~c.isResolved)

RECURSIVE createOrUpdateEach(_, _, _, _, _)
createOrUpdateEach(S, hs, parsed, filePath, existingComments) ==
    IF hs = <<>> \/ S.threw THEN S
    ELSE LET hunk == Head(hs)
             lineNumber == findLineInPRDiff(parsed, hunk.lineNumber)
             body == violationBody("p2", hunk, filePath)
             found == findExisting(existingComments, lineNumber)
             rest(T) == createOrUpdateEach(T, Tail(hs), parsed, filePath, existingComments)
         IN  IF lineNumber = 0 THEN rest(S)
             ELSE IF Len(found) > 0
                  THEN IF found[1].body = body THEN rest(S)
                       ELSE rest(doUpdate(S, found[1], body))
                  ELSE rest(doCreate(S, filePath, body, lineNumber))

createViolationComments_p2(S, file, originalText, formattedText, filePath, existingComments) ==
    IF ~file.inPR \/ filePath \in S.faults.unlisted \/ ~file.hasPatch THEN S
    ELSE IF filePath \in S.faults.unreadable THEN S
    ELSE LET hs == generateFormattingHunks_p2(originalText, formattedText)
         IN  IF Len(hs) = 0 THEN S
             ELSE catch(createOrUpdateEach(S, hs, file.patch, filePath, existingComments))

(***************************************************************************)
(* resolveFixedComments: one reply to every unresolved comment of a fixed  *)
(* file.                                                                   *)
(***************************************************************************)
\* variant: the filter keeps the resolved comments instead
commentsToResolve_resolvedOnly(existingComments, fixedFiles) ==
    SelectSeq(existingComments, LAMBDA c : c.isResolved /\ c.path \in Range(fixedFiles))

commentsToResolve(existingComments, fixedFiles) ==
    SelectSeq(existingComments, LAMBDA c : ~c.isResolved /\ c.path \in Range(fixedFiles))

\* variant: the loop ends after its first reply
replyEach_firstOnly(S, toResolve) ==
    IF toResolve = <<>> \/ S.threw THEN S
    ELSE doReply(S, Head(toResolve))

RECURSIVE replyEach(_, _)
replyEach(S, toResolve) ==
    IF toResolve = <<>> \/ S.threw THEN S
    ELSE replyEach(doReply(S, Head(toResolve)), Tail(toResolve))

resolveFixedComments(S, existingComments, fixedFiles) ==
    replyEach(S, commentsToResolve(existingComments, fixedFiles))

(***************************************************************************)
(* The formatter (CSharpier, an external tool): a line 11..19 is a badly   *)
(* formatted line 1..9, a line 20 is a line the formatter removes, every   *)
(* other line is kept.                                                     *)
(***************************************************************************)
formatLine(t) ==
    IF t \in 11..19 THEN <<t - 10>>
    ELSE IF t = 20 THEN <<>>
    ELSE <<t>>

csharpier(text) == Flatten([k \in 1..Len(text) |-> formatLine(text[k])])

(***************************************************************************)
(* formatFiles, src/src/csharpier-runner.ts: the files are piped to        *)
(* `csharpier pipe-files`, which writes, per file and in the order of the  *)
(* input, what it has for the file and then the delimiter \u0003; the      *)
(* output is split on the delimiter, the empty pieces are dropped, and the *)
(* i-th piece left is given to the i-th file.  A string is held as the     *)
(* list of its lines, the delimiter as an item of its own.                 *)
(***************************************************************************)
ETX == 300

\* what pipe-files writes for a list of per-file outputs
pipeFiles(outputs) == Flatten([k \in 1..Len(outputs) |-> outputs[k] \o <<ETX>>])

\* stdout.split('\u0003')
RECURSIVE split(_)
split(stdout) ==
    IF \A k \in 1..Len(stdout) : stdout[k] # ETX THEN <<stdout>>
    ELSE LET i == Min({k \in 1..Len(stdout) : stdout[k] = ETX})
         IN  <<SubSeq(stdout, 1, i - 1)>> \o split(SubSeq(stdout, i + 1, Len(stdout)))

\* lines 69-70
parseResults(stdout) == SelectSeq(split(stdout), LAMBDA s : Len(s) > 0)

\* lines 72-79: the map, as a function on the paths that got an entry
formattedMapOf(files, results) ==
    LET n == MinOf(Len(files), Len(results))
    IN  [p \in {files[i] : i \in 1..n} |->
            results[Max({i \in 1..n : files[i] = p})]]

\* formatFiles over a formatter that writes outputs[k] for the k-th file:
\* the map it returns and whether the formatter was invoked
formatFilesOver(files, outputs) ==
    IF Len(files) = 0 THEN [map |-> <<>>, invoked |-> FALSE]
    ELSE [map |-> formattedMapOf(files, parseResults(pipeFiles(outputs))),
          invoked |-> TRUE]

(***************************************************************************)
(* The pull request: its files in listing order, and what a commit can     *)
(* make of each file (content of the head commit, patch of the PR).        *)
(***************************************************************************)
Paths == {"a.cs", "b.cs"}
ListOrder == <<"a.cs", "b.cs">>

Chunk(newStart, changes) == [newStart |-> newStart, changes |-> changes]
Adds(n) == [k \in 1..n |-> "add"]

\* the PR does not touch the file
NotInPR == [inPR |-> FALSE, hasPatch |-> FALSE, patch |-> <<>>]
\* the PR lists the file without a patch
NoPatch == [inPR |-> TRUE, hasPatch |-> FALSE, patch |-> <<>>]
\* the PR shows the first n lines of the file (one of them replaces a line)
Shows(from, n) ==
    [inPR |-> TRUE, hasPatch |-> TRUE,
     patch |-> << <<Chunk(from, <<"normal", "del">> \o Adds(n - 1))>> >>]
\* the PR shows two regions of the file
ShowsTwo(from1, n1, from2, n2) ==
    [inPR |-> TRUE, hasPatch |-> TRUE,
     patch |-> << <<Chunk(from1, <<"del">> \o Adds(n1)),
                    Chunk(from2, <<"normal", "del">> \o Adds(n2 - 1))>> >>]

Version(text, file) == [text |-> text, file |-> file]

Versions(path) ==
    IF path = "a.cs"
    THEN {Version(<<1, 2, 3>>, Shows(1, 3)),
          Version(<<11, 2, 3>>, Shows(1, 3)),
          Version(<<1, 2, 13>>, Shows(1, 2)),
          Version(<<11, 2, 13>>, Shows(1, 3)),
          Version(<<20, 1, 2, 13>>, Shows(1, 4)),
          Version(<<11, 2, 3, 4, 5, 6, 7, 8, 19>>, ShowsTwo(1, 2, 5, 2)),
          Version(<<11, 2, 3, 4, 5, 6, 7, 8, 19>>, ShowsTwo(1, 2, 8, 2)),
          Version(<<11, 2, 3>>, NoPatch),
          Version(<<1, 2, 3>>, NotInPR)}
    ELSE {Version(<<1, 2>>, Shows(1, 2)),
          Version(<<1, 12>>, Shows(1, 2)),
          Version(<<1, 2>>, NotInPR)}

\* a run or a reviewer's remark begins only while the store has given out fewer
\* than MaxId ids; a behaviour holds at most MaxRemarks remarks
MaxId == 3
MaxRemarks == 1

(***************************************************************************)
(* State.                                                                  *)
(***************************************************************************)
VARIABLES
    impl,              \* the variant of the comment manager that runs
    originalContent,   \* hunk extractor harness: the original file
    formattedContent,  \* hunk extractor harness: the formatter's output
    hunks,             \* hunk extractor harness: the FormattingHunks returned
    genPc,             \* hunk extractor harness: "input" | "done" | "off"
    arg,               \* harness of one function: its arguments
    result,            \* harness of one function: what it returned
    head,              \* path -> Version: the head commit and the PR's view of it
    comments,          \* the comment store
    nextCommentId,     \* the id the store gives the next comment
    pc,                \* where run() is: "idle" | "resolve" | "files"
    existingComments,  \* run(): what getExistingComments returned
    unformattedFiles,  \* run(): the files that differ from their formatted content
    fixedFiles,        \* run(): the paths of existing comments that are not unformatted
    fileIdx,           \* run(): the index of the next file to reconcile
    calls,             \* run(): the mutation calls it has issued so far
    violationsFound,   \* the output violations-found of the last run ("" = not set)
    failed,            \* whether the last run was marked failed
    remarks,           \* how many remarks reviewers have written
    settled,           \* a run has ended and nothing outside has changed since it began
    repeat,            \* run(): it began in a settled state
    faulty,            \* whether the runs of this behaviour meet faults
    faults,            \* run(): what the store rejects and the checkout lacks during it
    reconciled,        \* the files a stopped run had reconciled, nothing changed since
    retryOf,           \* run(): the files a stopped run before it had reconciled
    other,             \* the locals of a second run() that overlaps this one
    overlap            \* "none" | "during" two overlapping runs | "after" them |
                       \* "healing": a run alone after them | "healed": it has ended

genVars == <<originalContent, formattedContent, hunks, genPc, arg, result>>
runVars == <<pc, existingComments, unformattedFiles, fixedFiles, fileIdx, calls,
             violationsFound, failed, repeat>>
mainVars == <<head, comments, nextCommentId, remarks, settled>>
faultVars == <<faulty, faults, reconciled, retryOf>>
overlapVars == <<other, overlap>>
vars == <<impl, genVars, runVars, mainVars, faultVars, overlapVars>>

(***************************************************************************)
(* The hunk extractor applied to every pair of files within MaxLines.      *)
(* An edit script over K (kept), D (only in the original), A (only in the  *)
(* formatted file) fixes the two files; line i of the script has text i.   *)
(***************************************************************************)
Scripts == UNION {[1..n -> {"K", "D", "A"}] : n \in 0..MaxLines}
OriginalOf(s) == Pick([i \in 1..Len(s) |-> i], {i \in 1..Len(s) : s[i] \in {"K", "D"}})
FormattedOf(s) == Pick([i \in 1..Len(s) |-> i], {i \in 1..Len(s) : s[i] \in {"K", "A"}})

\* the locals of a run() that is not running
Idle == [pc |-> "idle", existingComments |-> <<>>, unformattedFiles |-> <<>>,
         fixedFiles |-> <<>>, fileIdx |-> 1, calls |-> <<>>,
         violationsFound |-> "", failed |-> FALSE]

InitRun ==
    /\ pc = "idle"
    /\ arg = <<>>
    /\ result = <<>>
    /\ existingComments = <<>>
    /\ unformattedFiles = <<>>
    /\ fixedFiles = <<>>
    /\ fileIdx = 1
    /\ calls = <<>>
    /\ violationsFound = ""
    /\ failed = FALSE
    /\ repeat = FALSE
    /\ faults = NoFaults
    /\ reconciled = {}
    /\ retryOf = {}
    /\ other = Idle
    /\ overlap = "none"

InitMain ==
    /\ head \in [Paths -> UNION {Versions(p) : p \in Paths}]
    /\ \A p \in Paths : head[p] \in Versions(p)
    /\ comments = <<>>
    /\ nextCommentId = 1
    /\ remarks = 0
    /\ settled = FALSE

InitGen ==
    /\ impl \in Impls
    /\ \E s \in Scripts :
          /\ originalContent = OriginalOf(s)
          /\ formattedContent = FormattedOf(s)
    /\ hunks = <<>>
    /\ genPc = "input"
    /\ InitRun
    /\ faulty = FALSE
    /\ head = [p \in Paths |-> Version(<<>>, NotInPR)]
    /\ comments = <<>>
    /\ nextCommentId = 1
    /\ remarks = 0
    /\ settled = FALSE

Generate ==
    /\ genPc = "input"
    /\ hunks' = extract(impl, originalContent, formattedContent)
    /\ genPc' = "done"
    /\ UNCHANGED <<impl, originalContent, formattedContent, arg, result, runVars, mainVars,
                   faultVars, overlapVars>>

NextGen == Generate

SpecGen == InitGen /\ [][NextGen]_vars

(***************************************************************************)
(* getExistingComments applied to every list of at most MaxFetched review  *)
(* comments: with or without the marker or with a null body, a reply or    *)
(* not, with a line or only an original line.                              *)
(***************************************************************************)
MaxFetched == 4

FetchedBodies == {userBody(TRUE), userBody(FALSE), NullBody}

fetchedComment(id, kind) ==
    [id |-> id, path |-> kind.place.path, body |-> kind.body, line |-> kind.place.line,
     original_line |-> kind.place.original_line, in_reply_to_id |-> kind.parent]

FetchedPlaces ==
    {[path |-> "a.cs", line |-> 2, original_line |-> 2],
     [path |-> "b.cs", line |-> Undefined, original_line |-> 3]}

FetchedKinds == [body : FetchedBodies, place : FetchedPlaces, parent : {Undefined, 1}]

InitFetch ==
    /\ impl = "cm"
    /\ originalContent = <<>>
    /\ formattedContent = <<>>
    /\ hunks = <<>>
    /\ genPc = "fetch"
    /\ InitRun
    /\ faulty = FALSE
    /\ head = [p \in Paths |-> Version(<<>>, NotInPR)]
    /\ \E n \in 0..MaxFetched : \E kinds \in [1..n -> FetchedKinds] :
          comments = [k \in 1..n |-> fetchedComment(k, kinds[k])]
    /\ nextCommentId = Len(comments) + 1
    /\ remarks = 0
    /\ settled = FALSE

Fetch ==
    /\ genPc = "fetch"
    /\ existingComments' = getExistingComments(comments)
    /\ genPc' = "fetched"
    /\ UNCHANGED <<impl, originalContent, formattedContent, hunks, arg, result, pc,
                   unformattedFiles,
                   fixedFiles, fileIdx, calls, violationsFound, failed, repeat, mainVars,
                   faultVars, overlapVars>>

NextFetch == Fetch

SpecFetch == InitFetch /\ [][NextFetch]_vars

(***************************************************************************)
(* The states of a harness of one function: nothing runs.                  *)
(***************************************************************************)
InitHarness ==
    /\ originalContent = <<>>
    /\ formattedContent = <<>>
    /\ hunks = <<>>
    /\ result = <<>>
    /\ pc = "idle"
    /\ existingComments = <<>>
    /\ unformattedFiles = <<>>
    /\ fixedFiles = <<>>
    /\ fileIdx = 1
    /\ calls = <<>>
    /\ violationsFound = ""
    /\ failed = FALSE
    /\ repeat = FALSE
    /\ faulty = FALSE
    /\ faults = NoFaults
    /\ reconciled = {}
    /\ retryOf = {}
    /\ other = Idle
    /\ overlap = "none"
    /\ remarks = 0
    /\ settled = FALSE

\* the PR and the store are empty
InitEmpty ==
    /\ impl = "cm"
    /\ head = [p \in Paths |-> Version(<<>>, NotInPR)]
    /\ comments = <<>>
    /\ nextCommentId = 1

HarnessUnchanged ==
    UNCHANGED <<impl, originalContent, formattedContent, hunks, arg, runVars, mainVars,
                faultVars, overlapVars>>

(***************************************************************************)
(* formatFiles applied to every list of at most MaxFiles different files,  *)
(* over a formatter that writes, for each, one of FormatterOutputs: the    *)
(* empty output is what it writes for an empty file and for a file it      *)
(* cannot parse.                                                           *)
(***************************************************************************)
MaxFiles == 3
FormatPaths == {"a.cs", "b.cs", "c.cs"}
FormatterOutputs == {<<>>, <<1>>, <<2>>, <<1, 2>>}

FileLists ==
    UNION {{fs \in [1..n -> FormatPaths] : \A i, j \in 1..n : fs[i] = fs[j] => i = j} :
              n \in 0..MinOf(MaxFiles, Cardinality(FormatPaths))}

InitFormat ==
    /\ InitHarness
    /\ InitEmpty
    /\ genPc = "format"
    /\ \E files \in FileLists : \E outputs \in [1..Len(files) -> FormatterOutputs] :
          arg = [files |-> files, outputs |-> outputs]

Format ==
    /\ genPc = "format"
    /\ result' = formatFilesOver(arg.files, arg.outputs)
    /\ genPc' = "formatted"
    /\ HarnessUnchanged

NextFormat == Format

SpecFormat == InitFormat /\ [][NextFormat]_vars

(***************************************************************************)
(* getChangedCSharpFiles, src/src/pr-files.ts lines 16-53, over the        *)
(* listing pulls.listFiles answers with.  A file name is the sequence of   *)
(* its characters.                                                         *)
(***************************************************************************)
\* String.prototype.endsWith
endsWith(s, suffix) ==
    /\ Len(s) >= Len(suffix)
    /\ SubSeq(s, Len(s) - Len(suffix) + 1, Len(s)) = suffix

\* variant: removed files are kept
getChangedCSharpFilesOf_keepRemoved(context, files) ==
    IF ~context.pull_request
    THEN [threw |-> TRUE, value |-> <<>>, api |-> <<>>]
    ELSE [threw |-> FALSE,
          value |-> LET csharpFiles ==
                            SelectSeq(files, LAMBDA file :
                                endsWith(file.filename, <<".", "c", "s">>)
                                    \/ endsWith(file.filename, <<".", "c", "s", "x">>))
                    IN  [k \in 1..Len(csharpFiles) |->
                            [path |-> csharpFiles[k].filename, sha |-> csharpFiles[k].sha,
                             status |-> csharpFiles[k].status]],
          api |-> <<"listFiles">>]

\* lines 20-22 throw; 28-32 list; 37-47 filter and map
getChangedCSharpFilesOf(context, files) ==
    IF ~context.pull_request
    THEN [threw |-> TRUE, value |-> <<>>, api |-> <<>>]
    ELSE [threw |-> FALSE,
          value |-> LET csharpFiles ==
                            SelectSeq(files, LAMBDA file :
                                /\ endsWith(file.filename, <<".", "c", "s">>)
                                      \/ endsWith(file.filename, <<".", "c", "s", "x">>)
                                /\ file.status # "removed")
                    IN  [k \in 1..Len(csharpFiles) |->
                            [path |-> csharpFiles[k].filename, sha |-> csharpFiles[k].sha,
                             status |-> csharpFiles[k].status]],
          api |-> <<"listFiles">>]

\* a.cs, b.csx, c.txt, d.cs.md, ecs
FileNames ==
    {<<"a", ".", "c", "s">>, <<"b", ".", "c", "s", "x">>, <<"c", ".", "t", "x", "t">>,
     <<"d", ".", "c", "s", ".", "m", "d">>, <<"e", "c", "s">>}

FileStatuses == {"added", "modified", "removed"}

\* the listing of n files under given names and statuses; the sha of a file is
\* its place in the listing
Listing(n, names, statuses) ==
    [k \in 1..n |-> [filename |-> names[k], sha |-> k, status |-> statuses[k]]]

\* every listing of at most MaxFiles files, under either kind of event
InitList ==
    /\ InitHarness
    /\ InitEmpty
    /\ genPc = "list"
    /\ \E pull_request \in BOOLEAN, n \in 0..MaxFiles :
          \E names \in [1..n -> FileNames], statuses \in [1..n -> FileStatuses] :
              arg = [context |-> [pull_request |-> pull_request],
                     files |-> Listing(n, names, statuses)]

GetChangedCSharpFiles ==
    /\ genPc = "list"
    /\ result' = getChangedCSharpFilesOf(arg.context, arg.files)
    /\ genPc' = "listed"
    /\ HarnessUnchanged

NextList == GetChangedCSharpFiles

SpecList == InitList /\ [][NextList]_vars

(***************************************************************************)
(* findLineInPRDiff, src/src/comment-manager.ts lines 182-204, over the    *)
(* patches parseDiff can return: no file, one file of up to two chunks,    *)
(* or that file followed by a second one which shows every line.           *)
(***************************************************************************)
MaxChanges == 2
StartLines == {1, 3}
TargetLines == 1..(Max(StartLines) + MaxChanges)

ChangeLists == UNION {[1..n -> {"add", "del", "normal"}] : n \in 0..MaxChanges}
Chunks == {Chunk(newStart, changes) : newStart \in StartLines, changes \in ChangeLists}
ChunkLists == {<<>>} \cup {<<c>> : c \in Chunks} \cup {<<c, d>> : c, d \in Chunks}
WholeFile == <<Chunk(1, [k \in TargetLines |-> "normal"])>>
ParsedPatches ==
    {<<>>} \cup {<<chunks>> : chunks \in ChunkLists}
           \cup {<<chunks, WholeFile>> : chunks \in ChunkLists}

InitFind ==
    /\ InitHarness
    /\ InitEmpty
    /\ genPc = "find"
    /\ \E parsed \in ParsedPatches, targetLine \in TargetLines :
          arg = [patch |-> parsed, targetLine |-> targetLine]

FindLineInPRDiff ==
    /\ genPc = "find"
    /\ result' = findLineInPRDiff(arg.patch, arg.targetLine)
    /\ genPc' = "found"
    /\ HarnessUnchanged

NextFind == FindLineInPRDiff

SpecFind == InitFind /\ [][NextFind]_vars

(***************************************************************************)
(* run(), src/src/pr-files.ts lines 75-181, in the steps between which it  *)
(* awaits the comment manager.                                             *)
(***************************************************************************)
\* getChangedCSharpFiles: the .cs files the PR lists
getChangedCSharpFiles == SelectSeq(ListOrder, LAMBDA p : head[p].file.inPR)

\* formatFiles in a run with faults F: the formatter writes nothing for a file
\* it fails on (it ends with exit code 2 then; the exit code is not looked at)
formatFiles(F, filePaths) ==
    formatFilesOver(filePaths,
                    [k \in 1..Len(filePaths) |->
                        IF filePaths[k] \in F.noOutput THEN <<>>
                        ELSE csharpier(head[filePaths[k]].text)]).map

\* formattedMap.get(filePath): undefined is held as the empty string, both
\* are falsy
get(formattedMap, filePath) ==
    IF filePath \in DOMAIN formattedMap THEN formattedMap[filePath] ELSE <<>>

isUnformatted(originalText, formattedText) ==
    formattedText # <<>> /\ originalText # formattedText

\* variant: every changed file counts as unformatted
unformattedOf_all(F, filePaths) == filePaths

unformattedOf(F, filePaths) ==
    LET formattedMap == formatFiles(F, filePaths)
    IN  SelectSeq(filePaths,
                  LAMBDA p : isUnformatted(head[p].text, get(formattedMap, p)))

\* previouslyUnformattedFiles.filter(file => !unformattedFiles.includes(file))
fixedOf(existing, unformatted) ==
    LET previouslyUnformattedFiles == [k \in 1..Len(existing) |-> existing[k].path]
    IN  SelectSeq(previouslyUnformattedFiles, LAMBDA p : p \notin Range(unformatted))

Store == [comments |-> comments, nextCommentId |-> nextCommentId, calls |-> calls,
          faults |-> faults, threw |-> FALSE]

\* what the store may reject or the checkout may lack during one run: nothing,
\* one of the first MaxFaultAt mutation calls, the listing of one file, the
\* content of one file, or the formatter's output for one file
MaxFaultAt == 3
FaultPlans ==
    {NoFaults}
    \cup {[NoFaults EXCEPT !.calls = {k}] : k \in 1..MaxFaultAt}
    \cup {[NoFaults EXCEPT !.unlisted = {p}] : p \in Paths}
    \cup {[NoFaults EXCEPT !.unreadable = {p}] : p \in Paths}
    \cup {[NoFaults EXCEPT !.noOutput = {p}] : p \in Paths}

\* no C# file changed: 'Nothing to check', violations-found = false
RunNothingToCheck ==
    /\ pc = "idle" /\ other.pc = "idle" /\ nextCommentId <= MaxId
    /\ Len(getChangedCSharpFiles) = 0
    /\ violationsFound' = "false"
    /\ failed' = FALSE
    /\ settled' = TRUE
    /\ reconciled' = {}
    /\ overlap' = IF overlap = "after" THEN "healed" ELSE "none"
    /\ UNCHANGED <<impl, genVars, pc, existingComments, unformattedFiles, fixedFiles,
                   fileIdx, calls, repeat, head, comments, nextCommentId, remarks,
                   faulty, faults, retryOf, other>>

\* lines 105-137: fetch the comments, format, find the unformatted and the fixed files
RunBegin ==
    /\ pc = "idle" /\ other.pc = "idle" /\ nextCommentId <= MaxId
    /\ Len(getChangedCSharpFiles) > 0
    /\ faults' \in IF faulty THEN FaultPlans ELSE {NoFaults}
    /\ calls' = <<>>
    /\ violationsFound' = ""
    /\ failed' = FALSE
    /\ repeat' = settled
    /\ existingComments' = getExistingComments(comments)
    /\ unformattedFiles' = unformattedOf(faults', getChangedCSharpFiles)
    /\ fixedFiles' = fixedOf(existingComments', unformattedFiles')
    /\ fileIdx' = 1
    /\ pc' = "resolve"
    /\ retryOf' = reconciled
    /\ reconciled' = {}
    /\ overlap' = IF overlap = "after" THEN "healing" ELSE "none"
    /\ UNCHANGED <<impl, genVars, mainVars, faulty, other>>

\* lines 139-142; a reply that throws leaves the try block of run()
RunResolve ==
    /\ pc = "resolve"
    /\ LET S == IF Len(fixedFiles) > 0
                THEN resolveFixedComments(Store, existingComments, fixedFiles)
                ELSE Store
       IN  /\ comments' = S.comments
           /\ nextCommentId' = S.nextCommentId
           /\ calls' = S.calls
           /\ pc' = IF S.threw THEN "catch" ELSE "files"
    /\ UNCHANGED <<impl, genVars, existingComments, unformattedFiles, fixedFiles, fileIdx,
                   violationsFound, failed, repeat, head, remarks, settled,
                   faultVars, overlapVars>>

\* variant: the comments of every file are handed to the pass for one file
reconcile_unfiltered(i, S, filePath, existing) ==
    LET formattedText == get(formatFiles(S.faults, getChangedCSharpFiles), filePath)
    IN  IF i = "cm"
        THEN createViolationComments(S, head[filePath].file, head[filePath].text,
                                     formattedText, filePath, existing)
        ELSE createViolationComments_p2(S, head[filePath].file, head[filePath].text,
                                        formattedText, filePath, existing)

\* lines 147-160, one iteration
reconcile(i, S, filePath, existing) ==
    LET fileComments == SelectSeq(existing, LAMBDA c : c.path = filePath)
        formattedText == get(formatFiles(S.faults, getChangedCSharpFiles), filePath)
    IN  IF i = "cm"
        THEN createViolationComments(S, head[filePath].file, head[filePath].text,
                                     formattedText, filePath, fileComments)
        ELSE createViolationComments_p2(S, head[filePath].file, head[filePath].text,
                                        formattedText, filePath, fileComments)

RunFile ==
    /\ pc = "files"
    /\ fileIdx <= Len(unformattedFiles)
    /\ LET S == reconcile(impl, Store, unformattedFiles[fileIdx], existingComments)
       IN  /\ comments' = S.comments
           /\ nextCommentId' = S.nextCommentId
           /\ calls' = S.calls
    /\ fileIdx' = fileIdx + 1
    /\ UNCHANGED <<impl, genVars, pc, existingComments, unformattedFiles, fixedFiles,
                   violationsFound, failed, repeat, head, remarks, settled,
                   faultVars, overlapVars>>

\* lines 162-173
RunFinish ==
    /\ pc = "files"
    /\ fileIdx > Len(unformattedFiles)
    /\ violationsFound' = IF Len(unformattedFiles) > 0 THEN "true" ELSE "false"
    /\ failed' = (Len(unformattedFiles) > 0)
    /\ pc' = "idle"
    /\ settled' = TRUE
    \* run() returns: its locals are gone
    /\ existingComments' = <<>>
    /\ unformattedFiles' = <<>>
    /\ fixedFiles' = <<>>
    /\ fileIdx' = 1
    /\ calls' = <<>>
    /\ repeat' = FALSE
    /\ faults' = NoFaults
    /\ retryOf' = {}
    /\ overlap' = IF overlap = "healing" THEN "healed"
                  ELSE IF overlap = "during" /\ other.pc = "idle" THEN "after"
                  ELSE overlap
    /\ UNCHANGED <<impl, genVars, head, comments, nextCommentId, remarks,
                   faulty, reconciled, other>>

\* lines 174-180: an exception that left the try block marks the run failed
\* with the exception's message; violations-found is not set
RunCatch ==
    /\ pc = "catch"
    /\ failed' = TRUE
    /\ pc' = "idle"
    /\ settled' = TRUE
    /\ existingComments' = <<>>
    /\ unformattedFiles' = <<>>
    /\ fixedFiles' = <<>>
    /\ fileIdx' = 1
    /\ calls' = <<>>
    /\ repeat' = FALSE
    /\ faults' = NoFaults
    /\ retryOf' = {}
    /\ UNCHANGED <<impl, genVars, violationsFound, head, comments, nextCommentId, remarks,
                   faulty, reconciled, overlapVars>>

\* the job is cancelled or the runner dies between two files, after some of
\* the files were reconciled (listed, read, and no call for them rejected):
\* run() sets no output
RunStop ==
    /\ pc = "files"
    /\ 1 < fileIdx /\ fileIdx <= Len(unformattedFiles)
    /\ reconciled' = {p \in {unformattedFiles[k] : k \in 1..(fileIdx - 1)} :
                         /\ head[p].file.hasPatch
                         /\ p \notin faults.unlisted \cup faults.unreadable
                         /\ \A k \in 1..Len(calls) : calls[k].path = p => calls[k].ok}
    /\ pc' = "idle"
    /\ settled' = FALSE
    /\ existingComments' = <<>>
    /\ unformattedFiles' = <<>>
    /\ fixedFiles' = <<>>
    /\ fileIdx' = 1
    /\ calls' = <<>>
    /\ repeat' = FALSE
    /\ faults' = NoFaults
    /\ retryOf' = {}
    /\ UNCHANGED <<impl, genVars, violationsFound, failed, head, comments, nextCommentId,
                   remarks, faulty, overlapVars>>

(***************************************************************************)
(* A second run() of the same workflow, started while the first one is     *)
(* between two awaits: the same steps over locals of its own.              *)
(***************************************************************************)
OtherBegin ==
    /\ pc \in {"resolve", "files"} /\ other.pc = "idle" /\ nextCommentId <= MaxId
    /\ overlap # "healing"
    /\ Len(getChangedCSharpFiles) > 0
    /\ LET existing == getExistingComments(comments)
           unformatted == unformattedOf(faults, getChangedCSharpFiles)
       IN  other' = [Idle EXCEPT !.pc = "resolve",
                                 !.existingComments = existing,
                                 !.unformattedFiles = unformatted,
                                 !.fixedFiles = fixedOf(existing, unformatted)]
    /\ overlap' = "during"
    /\ UNCHANGED <<impl, genVars, runVars, mainVars, faultVars>>

\* the store as the second run meets it: the calls are its own
OtherStore == [Store EXCEPT !.calls = other.calls]

OtherResolve ==
    /\ other.pc = "resolve"
    /\ LET S == IF Len(other.fixedFiles) > 0
                THEN resolveFixedComments(OtherStore, other.existingComments,
                                          other.fixedFiles)
                ELSE OtherStore
       IN  /\ comments' = S.comments
           /\ nextCommentId' = S.nextCommentId
           /\ other' = [other EXCEPT !.calls = S.calls,
                                     !.pc = IF S.threw THEN "catch" ELSE "files"]
    /\ UNCHANGED <<impl, genVars, runVars, head, remarks, settled, faultVars, overlap>>

OtherFile ==
    /\ other.pc = "files"
    /\ other.fileIdx <= Len(other.unformattedFiles)
    /\ LET S == reconcile(impl, OtherStore, other.unformattedFiles[other.fileIdx],
                          other.existingComments)
       IN  /\ comments' = S.comments
           /\ nextCommentId' = S.nextCommentId
           /\ other' = [other EXCEPT !.calls = S.calls, !.fileIdx = @ + 1]
    /\ UNCHANGED <<impl, genVars, runVars, head, remarks, settled, faultVars, overlap>>

OtherFinish ==
    /\ other.pc = "files"
    /\ other.fileIdx > Len(other.unformattedFiles)
    /\ other' = [Idle EXCEPT !.violationsFound =
                                 IF Len(other.unformattedFiles) > 0 THEN "true" ELSE "false",
                             !.failed = (Len(other.unformattedFiles) > 0)]
    /\ overlap' = IF pc = "idle" THEN "after" ELSE "during"
    /\ UNCHANGED <<impl, genVars, runVars, mainVars, faultVars>>

(***************************************************************************)
(* The world around the action: commits pushed to the PR and remarks of    *)
(* reviewers, between runs.                                                *)
(***************************************************************************)
Commit ==
    /\ pc = "idle" /\ other.pc = "idle"
    /\ \E p \in Paths : \E v \in Versions(p) :
          /\ v # head[p]
          /\ head' = [head EXCEPT ![p] = v]
    /\ settled' = FALSE
    /\ reconciled' = {}
    /\ overlap' = "none"
    /\ UNCHANGED <<impl, genVars, runVars, comments, nextCommentId, remarks,
                   faulty, faults, retryOf, other>>

\* a reviewer writes a comment on a.cs: a remark of their own, a comment that
\* quotes the marker on a line the diff no longer shows (line undefined), or a
\* reply that quotes the marker
userComment(id, quotes, line, parent) ==
    [id |-> id, path |-> "a.cs", body |-> userBody(quotes),
     line |-> line, original_line |-> 1, in_reply_to_id |-> parent]

Remark ==
    /\ pc = "idle" /\ other.pc = "idle" /\ remarks < MaxRemarks /\ nextCommentId <= MaxId
    /\ \/ comments' = Append(comments, userComment(nextCommentId, FALSE, 1, Undefined))
       \/ comments' = Append(comments, userComment(nextCommentId, TRUE, Undefined, Undefined))
       \/ \E parent \in {c.id : c \in Range(comments)} :
             comments' = Append(comments, userComment(nextCommentId, TRUE, 1, parent))
    /\ nextCommentId' = nextCommentId + 1
    /\ remarks' = remarks + 1
    /\ settled' = FALSE
    /\ reconciled' = {}
    /\ overlap' = "none"
    /\ UNCHANGED <<impl, genVars, runVars, head, faulty, faults, retryOf, other>>

Init ==
    /\ impl \in Impls
    /\ originalContent = <<>>
    /\ formattedContent = <<>>
    /\ hunks = <<>>
    /\ genPc = "off"
    /\ InitRun
    /\ InitMain
    /\ faulty = FALSE

Next ==
    \/ RunNothingToCheck
    \/ RunBegin
    \/ RunResolve
    \/ RunFile
    \/ RunFinish
    \/ Commit
    \/ Remark

Spec == Init /\ [][Next]_vars

(***************************************************************************)
(* The same runs when one call of a run may be rejected, one file may be   *)
(* missing from the listing or unreadable, and a run may be stopped        *)
(* between two files; the comments are those of the action alone.          *)
(***************************************************************************)
InitFault ==
    /\ impl \in Impls
    /\ originalContent = <<>>
    /\ formattedContent = <<>>
    /\ hunks = <<>>
    /\ genPc = "off"
    /\ InitRun
    /\ InitMain
    /\ faulty = TRUE

NextFault ==
    \/ RunNothingToCheck
    \/ RunBegin
    \/ RunResolve
    \/ RunFile
    \/ RunFinish
    \/ RunCatch
    \/ RunStop
    \/ Commit

SpecFault == InitFault /\ [][NextFault]_vars

(***************************************************************************)
(* Two runs that overlap, followed by runs that do not.                    *)
(***************************************************************************)
NextOverlap ==
    \/ RunNothingToCheck
    \/ RunBegin
    \/ RunResolve
    \/ RunFile
    \/ RunFinish
    \/ OtherBegin
    \/ OtherResolve
    \/ OtherFile
    \/ OtherFinish
    \/ Commit
    \/ Remark

SpecOverlap == Init /\ [][NextOverlap]_vars

(***************************************************************************)
(* The entry points under either kind of event.  context.payload has a     *)
(* pull_request or not; run() and the three functions of the comment       *)
(* manager each test it first.  api is the list of the GitHub API          *)
(* operations called, reads included.                                      *)
(***************************************************************************)
opsOf(log) == [k \in 1..Len(log) |-> log[k].op]

\* what a function leaves: the store, and the reads and the writes it called
returned(S, reads) == [S |-> S, api |-> reads \o opsOf(S.calls)]

\* variant: the test of the event is left out
resolveFixedCommentsIn_untested(context, S, existing, fixed) ==
    returned(resolveFixedComments(S, existing, fixed), <<>>)

\* comment-manager.ts:342-344, then the function proper
resolveFixedCommentsIn(context, S, existing, fixed) ==
    IF ~context.pull_request THEN [S |-> S, api |-> <<>>]
    ELSE returned(resolveFixedComments(S, existing, fixed), <<>>)

\* comment-manager.ts:224-226, then the function proper, which lists the files first
createViolationCommentsIn(context, i, S, filePath, existing) ==
    IF ~context.pull_request THEN [S |-> S, api |-> <<>>]
    ELSE returned(reconcile(i, S, filePath, existing), <<"listFiles">>)

\* comment-manager.ts:145-147, then the function proper
getExistingCommentsIn(context, store) ==
    IF ~context.pull_request THEN [value |-> <<>>, api |-> <<>>]
    ELSE [value |-> getExistingComments(store), api |-> <<"listReviewComments">>]

EventFunctions ==
    {"run", "getExistingComments", "createViolationComments", "resolveFixedComments"}

\* the store holds nothing, or one unresolved comment of the action on a.cs
EventStores ==
    {<<>>,
     <<[id |-> 1, path |-> "a.cs", body |-> violationBody("cm", [content |-> <<1>>], "a.cs"),
        line |-> 1, original_line |-> 1, in_reply_to_id |-> Undefined]>>}

InitEvent ==
    /\ InitHarness
    /\ impl \in Impls
    /\ genPc = "event"
    /\ head \in [Paths -> UNION {Versions(p) : p \in Paths}]
    /\ \A p \in Paths : head[p] \in Versions(p)
    /\ comments \in EventStores
    /\ nextCommentId = Len(comments) + 1
    /\ \E fn \in EventFunctions, pull_request \in BOOLEAN :
          arg = [fn |-> fn, context |-> [pull_request |-> pull_request], store |-> comments]

\* pr-files.ts:76-83: not a pull request event, run() returns
RunSkipped ==
    /\ genPc = "event" /\ arg.fn = "run" /\ ~arg.context.pull_request
    /\ genPc' = "returned"
    /\ result' = [api |-> <<>>, formatter |-> FALSE]
    /\ HarnessUnchanged

\* pr-files.ts:85-173: a pull request event, run() goes on
RunInPullRequest ==
    /\ genPc = "event" /\ arg.fn = "run" /\ arg.context.pull_request
    /\ \/ RunNothingToCheck
       \/ RunBegin
       \/ RunResolve
       \/ RunFile
       \/ RunFinish

CallGetExistingComments ==
    /\ genPc = "event" /\ arg.fn = "getExistingComments"
    /\ \E r \in {getExistingCommentsIn(arg.context, comments)} :
           /\ existingComments' = r.value
           /\ result' = [api |-> r.api, formatter |-> FALSE]
    /\ genPc' = "returned"
    /\ UNCHANGED <<impl, originalContent, formattedContent, hunks, arg, pc, unformattedFiles,
                   fixedFiles, fileIdx, calls, violationsFound, failed, repeat, mainVars,
                   faultVars, overlapVars>>

CallCreateViolationComments ==
    /\ genPc = "event" /\ arg.fn = "createViolationComments"
    /\ \E r \in {createViolationCommentsIn(arg.context, impl, Store, "a.cs",
                                             getExistingComments(comments))} :
           /\ comments' = r.S.comments
           /\ nextCommentId' = r.S.nextCommentId
           /\ calls' = r.S.calls
           /\ result' = [api |-> r.api, formatter |-> FALSE]
    /\ genPc' = "returned"
    /\ UNCHANGED <<impl, originalContent, formattedContent, hunks, arg, pc, existingComments,
                   unformattedFiles, fixedFiles, fileIdx, violationsFound, failed, repeat,
                   head, remarks, settled, faultVars, overlapVars>>

CallResolveFixedComments ==
    /\ genPc = "event" /\ arg.fn = "resolveFixedComments"
    /\ \E r \in {resolveFixedCommentsIn(arg.context, Store,
                                          getExistingComments(comments), <<"a.cs">>)} :
           /\ comments' = r.S.comments
           /\ nextCommentId' = r.S.nextCommentId
           /\ calls' = r.S.calls
           /\ result' = [api |-> r.api, formatter |-> FALSE]
    /\ genPc' = "returned"
    /\ UNCHANGED <<impl, originalContent, formattedContent, hunks, arg, pc, existingComments,
                   unformattedFiles, fixedFiles, fileIdx, violationsFound, failed, repeat,
                   head, remarks, settled, faultVars, overlapVars>>

NextEvent ==
    \/ RunSkipped
    \/ RunInPullRequest
    \/ CallGetExistingComments
    \/ CallCreateViolationComments
    \/ CallResolveFixedComments

SpecEvent == InitEvent /\ [][NextEvent]_vars

(***************************************************************************)
(* Extraction and annotation of one file that the PR adds: the patch of    *)
(* the PR shows every line of the head file, which is the original         *)
(* content.  The two files differ at the top and at the bottom, with up to *)
(* MaxKept unchanged lines between.                                        *)
(***************************************************************************)
MaxKept == 7

Edits == {<<"D">>, <<"A">>, <<"D", "A">>, <<"D", "D", "A">>, <<"D", "A", "A">>}

Kept(n) == [k \in 1..n |-> "K"]

\* the PR file of a file the PR adds
AddedFile(text) ==
    [inPR |-> TRUE, hasPatch |-> TRUE, patch |-> << <<Chunk(1, Adds(Len(text)))>> >>]

InitCoord ==
    /\ impl \in Impls
    /\ \E first \in Edits, last \in Edits, n \in 1..MaxKept :
          /\ originalContent = OriginalOf(first \o Kept(n) \o last)
          /\ formattedContent = FormattedOf(first \o Kept(n) \o last)
    /\ hunks = <<>>
    /\ genPc = "input"
    /\ InitRun
    /\ faulty = FALSE
    /\ head = [p \in Paths |-> Version(<<>>, NotInPR)]
    /\ comments = <<>>
    /\ nextCommentId = 1
    /\ remarks = 0
    /\ settled = FALSE

\* createViolationComments for the file, nothing being in the store
Annotate ==
    /\ genPc = "done"
    /\ \E S \in {IF impl = "cm"
                  THEN createViolationComments(Store, AddedFile(originalContent),
                                               originalContent, formattedContent, "a.cs", <<>>)
                  ELSE createViolationComments_p2(Store, AddedFile(originalContent),
                                                  originalContent, formattedContent, "a.cs",
                                                  <<>>)} :
          /\ comments' = S.comments
          /\ nextCommentId' = S.nextCommentId
          /\ calls' = S.calls
    /\ genPc' = "annotated"
    /\ UNCHANGED <<impl, originalContent, formattedContent, hunks, arg, result, pc,
                   existingComments, unformattedFiles, fixedFiles, fileIdx, violationsFound,
                   failed, repeat, head, remarks, settled, faultVars, overlapVars>>

NextCoord == Generate \/ Annotate

SpecCoord == InitCoord /\ [][NextCoord]_vars

(***************************************************************************)
(* Vocabulary of the claims.                                               *)
(***************************************************************************)
\* the files whose reconciliation pass the current run has been through
PassedFiles == IF pc = "files" THEN {unformattedFiles[k] : k \in 1..(fileIdx - 1)} ELSE {}

\* the FormattingHunks of a file of the head commit
hunksOf(p) == extract(impl, head[p].text, csharpier(head[p].text))

\* the pass of the current run for p has completed: it was not skipped for a
\* missing listing, patch or content or for want of hunks
Completed(p) ==
    /\ p \in PassedFiles
    /\ head[p].file.inPR /\ head[p].file.hasPatch
    /\ p \notin faults.unlisted \cup faults.unreadable
    /\ Len(hunksOf(p)) > 0

\* the lines the PR patch of a file shows on its new side
VisibleLines(file) ==
    IF ~file.hasPatch \/ Len(file.patch) = 0 THEN {}
    ELSE LET chunks == file.patch[1]
             shown(ch) == Cardinality({k \in 1..Len(ch.changes) : ch.changes[k] # "del"})
         IN  UNION {{chunks[c].newStart + k - 1 : k \in 1..shown(chunks[c])} : c \in 1..Len(chunks)}

\* the unresolved tool-owned comments of a file, as the engine derives them
Unresolved(store, p) ==
    {c \in Range(getExistingComments(store)) : c.path = p /\ ~c.isResolved}

\* the annotations the engine wants for a file: (line, body) of every hunk whose
\* anchor the patch shows
DesiredBody(hunk, p) ==
    [marker |-> "<!-- csharpier-action -->",
     text |-> IF impl = "cm" THEN "**CSharpier**: This section is not formatted correctly."
              ELSE "This section is not formatted according to CSharpier rules.",
     suggestion |-> hunk.content,
     fix |-> p]

Desired(p) ==
    {[line |-> h.lineNumber, body |-> DesiredBody(h, p)] :
        h \in {x \in Range(hunksOf(p)) : x.lineNumber \in VisibleLines(head[p].file)}}

CallsOf(op) == {k \in 1..Len(calls) : calls[k].op = op}

(***************************************************************************)
(* C1.  After a reconciliation pass of comment-manager.ts has completed    *)
(* for a file, no two unresolved tool-owned comments of that file are      *)
(* anchored at the same line.                                              *)
(***************************************************************************)
C1_NoDuplicateAnchor ==
    impl = "cm" =>
        \A p \in Paths : Completed(p) =>
            \A c1, c2 \in Unresolved(comments, p) : c1.id # c2.id => c1.line # c2.line

\* a second run on unchanged inputs has re-created a comment at the line at which
\* the first run had left one
C1_Witness ==
    /\ impl = "cm" /\ repeat
    /\ \E p \in Paths :
          /\ Completed(p)
          /\ \E e \in Range(existingComments), k \in CallsOf("create") :
                /\ e.path = p /\ ~e.isResolved
                /\ calls[k].path = p /\ calls[k].line = e.line

(***************************************************************************)
(* C2.  A run that repeats a completed run, nothing having changed in      *)
(* between, issues no createReviewComment, updateReviewComment or          *)
(* deleteReviewComment call.                                               *)
(***************************************************************************)
C2_Idempotence ==
    repeat => CallsOf("create") \cup CallsOf("update") \cup CallsOf("delete") = {}

(***************************************************************************)
(* C3.  createViolationComments of comment-manager.ts, run for a file with *)
(* one PR-visible hunk whose only comment is an unresolved tool-owned one, *)
(* leaves exactly one comment for the file: a new one (new id) with the    *)
(* desired body at the hunk's line; the old comment is gone.               *)
(***************************************************************************)
CommentsOn(store, p) == {c \in Range(store) : c.path = p}

C4_StaleRemoved ==
    \A p \in Paths : Completed(p) =>
        \A e \in Range(existingComments) :
            (/\ e.path = p /\ ~e.isResolved
             /\ ~\E d \in Desired(p) : d.line = e.line /\ d.body = e.body)
            => ~hasId(comments, e.id)

(***************************************************************************)
(* C5.  When a reconciliation pass of comment-manager.ts has completed for *)
(* a file, every hunk whose anchor line the PR patch shows has an          *)
(* unresolved tool-owned comment with the desired line and body.           *)
(***************************************************************************)
C5_LiveViolationsAnnotated ==
    impl = "cm" =>
        \A p \in Paths : Completed(p) =>
            \A d \in Desired(p) :
                \E c \in Unresolved(comments, p) : c.line = d.line /\ c.body = d.body

C5_Witness ==
    /\ impl = "cm"
    /\ \E p \in Paths : Completed(p) /\ Desired(p) # {}
                        /\ \E k \in CallsOf("create") : calls[k].path = p

(***************************************************************************)
(* C7.  No comment is created for a hunk whose anchor line the PR patch    *)
(* does not show: every createReviewComment call of a run carries a line   *)
(* that is on the new side of the patch of its file.                       *)
(***************************************************************************)
C7_InvisibleNeverAnnotated ==
    pc = "files" =>
        /\ \A k \in CallsOf("create") : calls[k].line \in VisibleLines(head[calls[k].path].file)
        /\ \A p \in Paths : Completed(p) =>
              \A h \in Range(hunksOf(p)) :
                  h.lineNumber \notin VisibleLines(head[p].file)
                  => /\ findLineInPRDiff(head[p].file.patch, h.lineNumber) = 0
                     /\ ~\E k \in CallsOf("create") :
                            calls[k].path = p /\ calls[k].line = h.lineNumber

\* a pass has been through a file with a hunk the patch shows and one it does not
C7_Witness ==
    /\ pc = "files"
    /\ \E p \in Paths :
          /\ Completed(p)
          /\ \E h \in Range(hunksOf(p)) : h.lineNumber \notin VisibleLines(head[p].file)
          /\ \E k \in CallsOf("create") : calls[k].path = p

(***************************************************************************)
(* C9.  In a run in which a changed file p has no violation left, every    *)
(* unresolved tool-owned comment of p gets exactly one                     *)
(* createReplyForReviewComment call and no deleteReviewComment call.       *)
(***************************************************************************)
NoViolationLeft(p) == head[p].file.inPR /\ csharpier(head[p].text) = head[p].text

C9_FixConvergence ==
    pc = "files" =>
        \A e \in Range(existingComments) :
            (~e.isResolved /\ NoViolationLeft(e.path))
            => /\ Cardinality({k \in CallsOf("reply") : calls[k].id = e.id}) = 1
               /\ {k \in CallsOf("delete") : calls[k].id = e.id} = {}

\* the run has gone through all its files, one of them still unformatted, and has
\* answered a comment of a file that is fixed
C9_Witness ==
    /\ pc = "files" /\ fileIdx > Len(unformattedFiles) /\ Len(unformattedFiles) > 0
    /\ \E e \in Range(existingComments) :
          /\ ~e.isResolved /\ NoViolationLeft(e.path)
          /\ e.body.fix = e.path
          /\ \E k \in CallsOf("reply") : calls[k].id = e.id

(***************************************************************************)
(* C10.  getExistingComments reports a tool-owned comment as resolved if   *)
(* and only if the fetched comments hold a reply to it.                    *)
(***************************************************************************)
C10_ResolvedIffReplied ==
    \A c \in Range(getExistingComments(comments)) :
        c.isResolved <=> \E r \in Range(comments) : r.in_reply_to_id = c.id

(***************************************************************************)
(* C6.  generateFormattingHunks returns exactly one FormattingHunk per     *)
(* maximal run of added/deleted lines of the diff.                         *)
(***************************************************************************)
ChangeRuns(d) ==
    Cardinality({i \in 1..Len(d) : d[i].tag # " " /\ (i = 1 \/ d[i - 1].tag = " ")})

C6_SplitCorrectness ==
    genPc = "done" => Len(hunks) = ChangeRuns(diffLines(originalContent, formattedContent))

(***************************************************************************)
(* C8.  The content of every FormattingHunk is a contiguous slice of the   *)
(* lines of the formatted file and holds no line of the original only.     *)
(***************************************************************************)
\* the lines a file splits into: a file of n lines, each ended by a newline, splits
\* into its lines and a last empty one
SplitLines(text) == text \o <<0>>

IsSlice(c, t) == \E i \in 0..(Len(t) - Len(c)) : SubSeq(t, i + 1, i + Len(c)) = c

C8_ContentRoundTrip ==
    genPc = "done" =>
        \A h \in Range(hunks) :
            /\ IsSlice(h.content, SplitLines(formattedContent))
            /\ \A k \in 1..Len(h.content) :
                  h.content[k] \in Range(originalContent) => h.content[k] \in Range(formattedContent)


(***************************************************************************)
(* C11.  getExistingComments returns exactly the fetched comments whose    *)
(* body contains the marker, in their order, each with isResolved true     *)
(* exactly when its in_reply_to_id is defined; a comment without the       *)
(* marker, or with a null body, is never returned.                         *)
(***************************************************************************)
MarkedAt ==
    {k \in 1..Len(comments) :
        /\ comments[k].body # [null |-> TRUE]
        /\ comments[k].body.marker = "<!-- csharpier-action -->"}

C11_ExactlyTheMarked ==
    genPc = "fetched" =>
        /\ Len(existingComments) = Cardinality(MarkedAt)
        /\ \A k \in MarkedAt :
              LET r == existingComments[Cardinality({j \in MarkedAt : j <= k})]
              IN  /\ r.id = comments[k].id
                  /\ r.path = comments[k].path
                  /\ r.body = comments[k].body
                  /\ r.isResolved <=> (comments[k].in_reply_to_id # 0)

\* a list with a null body, a body without the marker, a marked reply and a marked
\* comment that is no reply
C11_Witness ==
    /\ genPc = "fetched"
    /\ \E k \in 1..Len(comments) : comments[k].body = [null |-> TRUE]
    /\ \E k \in 1..Len(comments) : comments[k].body = userBody(FALSE)
    /\ \E r1, r2 \in Range(existingComments) : r1.isResolved /\ ~r2.isResolved
    /\ Len(existingComments) < Len(comments)

(***************************************************************************)
(* C12.  In every step of the engine, a comment whose body lacks the       *)
(* marker stays as it is, every delete, update or reply call is aimed at a *)
(* comment whose body has the marker, and the pass for one file leaves the *)
(* comments of every other file as they are.                               *)
(***************************************************************************)
Marked(c) == c.body.marker = "<!-- csharpier-action -->"

NewCalls == IF Len(calls') > Len(calls) THEN (Len(calls) + 1)..Len(calls') ELSE {}

C12_OwnershipFrame ==
    [][ /\ \A c \in Range(comments) : ~Marked(c) => c \in Range(comments')
        /\ \A k \in NewCalls :
              calls'[k].op \in {"delete", "update", "reply"}
              => \E c \in Range(comments) : c.id = calls'[k].id /\ Marked(c)
        /\ (pc = "files" /\ fileIdx' = fileIdx + 1)
              => \A q \in Paths \ {unformattedFiles[fileIdx]} :
                     CommentsOn(comments, q) = CommentsOn(comments', q) ]_vars

\* the pass for a file has deleted a marked comment of the file while a reviewer's
\* comment without the marker is on the same file
C12_Witness ==
    /\ pc = "files"
    /\ \E c \in Range(comments), k \in CallsOf("delete") :
          ~Marked(c) /\ c.path = calls[k].path /\ c.path \in PassedFiles

(***************************************************************************)
(* C13.  A comment is deleted only while its file still has violations and *)
(* its (line, body) is no longer a desired annotation; a comment that has  *)
(* been answered as fixed is never deleted.                                *)
(***************************************************************************)
HasReply(store, id) == \E r \in Range(store) : r.in_reply_to_id = id

C13_DeleteOnlyOnChange ==
    [][ \A k \in NewCalls : calls'[k].op = "delete" =>
            \A c \in Range(comments) : c.id = calls'[k].id =>
                /\ ~HasReply(comments, c.id)
                /\ ~NoViolationLeft(c.path)
                /\ ~\E d \in Desired(c.path) : d.line = lineOf(c) /\ d.body = c.body ]_vars

(***************************************************************************)
(* C14.  When one delete or create call of a run is rejected, the files    *)
(* the run has been through are still reconciled in full: every unresolved *)
(* comment the run observed on the file has had its delete call, every     *)
(* visible hunk of the file has had its create call, and what the calls    *)
(* that succeeded did is still in the store.                               *)
(***************************************************************************)
\* the run's calls for an operation on a file, rejected ones included
Attempts(op, p) == {k \in CallsOf(op) : calls[k].path = p}

C14_FailureDoesNotAbort ==
    (impl = "cm" /\ pc = "files") =>
        \A p \in PassedFiles : Completed(p) =>
            /\ \A e \in Range(existingComments) :
                   (e.path = p /\ ~e.isResolved) =>
                       \E k \in Attempts("delete", p) : calls[k].id = e.id
            /\ \A d \in Desired(p) :
                   \E k \in Attempts("create", p) : calls[k].line = d.line
            /\ \A k \in Attempts("create", p) :
                   calls[k].ok => hasId(comments, calls[k].id)
            /\ \A k \in Attempts("delete", p) :
                   calls[k].ok => ~hasId(comments, calls[k].id)

(***************************************************************************)
(* C15.  When one reply call of a run is rejected, the run does not leave  *)
(* its try block: it goes on to the loop over the files with violations,   *)
(* and by then every comment it had to resolve has had its reply call.     *)
(***************************************************************************)
C15_ReplyFailureDoesNotAbort ==
    /\ pc # "catch"
    /\ pc = "files" =>
          \A k \in 1..Len(commentsToResolve(existingComments, fixedFiles)) :
             \E j \in CallsOf("reply") :
                calls[j].id = commentsToResolve(existingComments, fixedFiles)[k].id

(***************************************************************************)
(* C17.  Whatever the comment store did with the calls of a run, when the  *)
(* run has ended violations-found is 'true' and the run is marked failed   *)
(* if a changed file differs from its formatted content, and otherwise     *)
(* violations-found is 'false' and the run is not marked failed.           *)
(***************************************************************************)
HasViolations ==
    \E p \in Range(getChangedCSharpFiles) :
        isUnformatted(head[p].text, csharpier(head[p].text))

C17_VerdictFromViolations ==
    (pc = "idle" /\ settled) =>
        IF HasViolations THEN violationsFound = "true" /\ failed
        ELSE violationsFound = "false" /\ ~failed

(***************************************************************************)
(* C16.  The pass of createViolationComments for a file that the PR's file *)
(* list lacks, that has no patch, or whose content cannot be read issues   *)
(* no call and leaves the comment store as it is; the function returns,    *)
(* and run() goes on with the next file.                                   *)
(***************************************************************************)
Skipped(p) ==
    \/ ~head[p].file.inPR \/ p \in faults.unlisted
    \/ ~head[p].file.hasPatch
    \/ p \in faults.unreadable

C19_RetryRedoesOnlyTheRest ==
    (impl = "cm" /\ pc = "files" /\ retryOf # {} /\ faults = NoFaults) =>
        /\ \A p \in retryOf : Attempts("create", p) = {} /\ Attempts("delete", p) = {}
        /\ fileIdx > Len(unformattedFiles) =>
              \A p \in Range(unformattedFiles) : Completed(p) =>
                 /\ {[line |-> c.line, body |-> c.body] : c \in Unresolved(comments, p)}
                       = Desired(p)
                 /\ Cardinality(Unresolved(comments, p)) = Cardinality(Desired(p))

(***************************************************************************)
(* C20.  In the order in which a run issues its calls, every reply comes   *)
(* before every create, update and delete; the creates, updates and        *)
(* deletes come file by file in the order of the file loop; and none is    *)
(* issued for a file whose turn has not come.                              *)
(***************************************************************************)
\* the turn of a file in the file loop of the current run (0: it has none)
TurnOf(p) ==
    IF p \in Range(unformattedFiles)
    THEN CHOOSE k \in 1..Len(unformattedFiles) : unformattedFiles[k] = p
    ELSE 0

C20_Sequential ==
    /\ pc = "resolve" => calls = <<>>
    /\ pc = "files" =>
          /\ \A k \in 1..Len(calls) :
                 calls[k].op # "reply" =>
                    TurnOf(calls[k].path) >= 1 /\ TurnOf(calls[k].path) < fileIdx
          /\ \A i, j \in 1..Len(calls) :
                 i < j =>
                    /\ calls[j].op = "reply" => calls[i].op = "reply"
                    /\ (calls[i].op # "reply" /\ calls[j].op # "reply") =>
                          TurnOf(calls[i].path) <= TurnOf(calls[j].path)

\* a.cs had its delete and its create, then b.cs its create
C20_Witness ==
    /\ pc = "files" /\ unformattedFiles = <<"a.cs", "b.cs">> /\ fileIdx = 3
    /\ Attempts("delete", "a.cs") # {}
    /\ Attempts("create", "a.cs") # {}
    /\ Attempts("create", "b.cs") # {}

(***************************************************************************)
(* C18.  After two runs have overlapped, and one further run has then run  *)
(* alone from begin to end with nothing changed, every visible hunk of     *)
(* every file with violations has exactly one unresolved tool-owned        *)
(* comment at its line.                                                    *)
(***************************************************************************)
C18_OverlapSelfCorrects ==
    overlap = "healed" =>
        \A p \in Paths :
            (head[p].file.inPR /\ isUnformatted(head[p].text, csharpier(head[p].text))) =>
                \A d \in Desired(p) :
                    Cardinality({c \in Unresolved(comments, p) : c.line = d.line}) = 1

(***************************************************************************)
(* C21.  When the pass of a run for a file is over, and a comment of the   *)
(* file had been answered as fixed before (the file was annotated, then    *)
(* fixed), every visible hunk of the file has a tool-owned comment at its  *)
(* line, with the hunk's body, that has not been answered as fixed (in a   *)
(* PR on which only the action has commented).                             *)
(***************************************************************************)
\* the comment has a reply of resolveFixedComments under it
AnsweredFixed(store, id) ==
    \E r \in Range(store) :
        r.in_reply_to_id = id /\ r.body # [null |-> TRUE]
        /\ r.body.text = "Formatting has been fixed."

\* a reply of resolveFixedComments was posted on the file
WasFixed(store, p) ==
    \E r \in Range(store) :
        r.path = p /\ r.in_reply_to_id # 0 /\ r.body # [null |-> TRUE]
        /\ r.body.text = "Formatting has been fixed."

C21_ReBreakAnnotated ==
    (pc = "files" /\ remarks = 0) =>
        \A p \in PassedFiles : (Completed(p) /\ WasFixed(comments, p)) =>
            \A d \in Desired(p) :
                \E c \in Range(comments) :
                    /\ c.path = p /\ c.line = d.line /\ c.body = d.body
                    /\ ~AnsweredFixed(comments, c.id)

(***************************************************************************)
(* C22.  The FormattingHunks of src/unnamed/part_002 are, in order, one    *)
(* per change block of the diff, and the anchor of each is the value that  *)
(* a new-file line counter has at the first changed line inside the        *)
(* block's window of 3 lines of context: the counter starts at 1 with the  *)
(* file, goes up by one after a context or an added line and stays after a *)
(* deleted line.                                                           *)
(***************************************************************************)
\* the value of the new-file line counter when it reaches line i of the diff
RECURSIVE lineCounter(_, _)
lineCounter(d, i) ==
    IF i = 1 THEN 1
    ELSE lineCounter(d, i - 1) + (IF d[i - 1].tag \in {" ", "+"} THEN 1 ELSE 0)

\* where the change blocks of a diff begin
BlockStarts(d) == {i \in 1..Len(d) : d[i].tag # " " /\ (i = 1 \/ d[i - 1].tag = " ")}

\* the first changed line at or after the start of the window of the block
\* that begins at s
FirstChangedInWindow(d, s) ==
    CHOOSE j \in 1..s :
        /\ j >= s - 3 /\ d[j].tag # " "
        /\ \A k \in 1..(j - 1) : k >= s - 3 => d[k].tag = " "

C22_AnchorIsFirstChangedLine ==
    (genPc = "done" /\ impl = "p2") =>
        LET d == diffLines(originalContent, formattedContent)
        IN  /\ Len(hunks) = Cardinality(BlockStarts(d))
            /\ \A s \in BlockStarts(d) :
                  hunks[Cardinality({b \in BlockStarts(d) : b <= s})].lineNumber
                      = lineCounter(d, FirstChangedInWindow(d, s))

\* violations at lines 1 and 9, seven unchanged lines between them
C22_Witness ==
    /\ genPc = "done" /\ impl = "p2"
    /\ Len(formattedContent) = 9
    /\ Len(hunks) = 2
    /\ hunks[1].lineNumber = 1
    /\ hunks[2].lineNumber = 9

(***************************************************************************)
(* C23.  The step of a run that resolves the fixed files issues reply      *)
(* calls only: one to every comment it observed as unresolved on a path of *)
(* fixedFiles, none to any other comment.  Every comment of the store      *)
(* stays as it was; what the step adds are the replies, one per call.      *)
(***************************************************************************)
RepliesTo(log, id) == {k \in 1..Len(log) : log[k].op = "reply" /\ log[k].id = id}

C23_ResolveFrame ==
    [][ (pc = "resolve" /\ pc' = "files") =>
          /\ \A k \in 1..Len(calls') : calls'[k].op = "reply"
          /\ \A k \in 1..Len(existingComments) :
                Cardinality(RepliesTo(calls', existingComments[k].id))
                    = IF /\ ~existingComments[k].isResolved
                         /\ existingComments[k].path \in Range(fixedFiles)
                      THEN 1 ELSE 0
          /\ \A k \in 1..Len(calls') :
                \E e \in Range(existingComments) : e.id = calls'[k].id
          /\ Len(comments') = Len(comments) + Len(calls')
          /\ SubSeq(comments', 1, Len(comments)) = comments
          /\ \A k \in 1..Len(calls') :
                /\ comments'[Len(comments) + k].in_reply_to_id = calls'[k].id
                /\ comments'[Len(comments) + k].body.text = "Formatting has been fixed." ]_vars

\* a reply went to the unresolved comment of a fixed file and none to a
\* resolved comment of the same file
C23_Witness ==
    /\ pc = "files" /\ fileIdx = 1
    /\ \E k \in 1..Len(calls) : calls[k].op = "reply"
    /\ \E e \in Range(existingComments) :
          e.isResolved /\ e.path \in Range(fixedFiles) /\ RepliesTo(calls, e.id) = {}

(***************************************************************************)
(* C27.  The map formatFiles returns has one entry per file of its list,   *)
(* the entry of the k-th file being what the formatter wrote for the k-th  *)
(* file; for the empty list the map is empty and the formatter is not      *)
(* invoked.                                                                *)
(***************************************************************************)
C27_OneEntryPerFile ==
    genPc = "formatted" =>
        /\ DOMAIN result.map = Range(arg.files)
        /\ \A k \in 1..Len(arg.files) : result.map[arg.files[k]] = arg.outputs[k]
        /\ Len(arg.files) = 0 => ~result.invoked

(***************************************************************************)
(* C24.  In a run for which the formatter failed on a changed file (it     *)
(* wrote no output for it), no reply 'Formatting has been fixed.' is       *)
(* posted, and the run ends marked failed.                                 *)
(***************************************************************************)
C24_FormatterErrorFails ==
    [][ (\E p \in faults.noOutput : head[p].file.inPR) =>
          /\ \A k \in 1..Len(calls') : calls'[k].op # "reply"
          /\ (pc # "idle" /\ pc' = "idle" /\ settled') => failed' ]_vars

(***************************************************************************)
(* C30.  Every reply 'Formatting has been fixed.' of a run goes to a       *)
(* comment of a file that is among the changed files, for which the        *)
(* formatter's result has an entry, and whose content equals its formatted *)
(* content.                                                                *)
(***************************************************************************)
TrulyFixed(p) ==
    /\ p \in Range(getChangedCSharpFiles)
    /\ p \in DOMAIN formatFiles(faults, getChangedCSharpFiles)
    /\ p \notin faults.noOutput
    /\ csharpier(head[p].text) = head[p].text

C30_ReplyOnlyWhenFixed ==
    pc \in {"files", "catch"} =>
        \A k \in 1..Len(calls) : calls[k].op = "reply" => TrulyFixed(calls[k].path)

(***************************************************************************)
(* C25.  While every changed file equals its formatted content, a run has  *)
(* issued no create call, and when it has ended violations-found is        *)
(* 'false' and the run is not marked failed (the formatter and the comment *)
(* store working).                                                         *)
(***************************************************************************)
C25_SilentSuccess ==
    ~HasViolations =>
        /\ \A k \in 1..Len(calls) : calls[k].op # "create"
        /\ unformattedFiles = <<>>
        /\ (pc = "idle" /\ settled) => (violationsFound = "false" /\ ~failed)

\* a run over two changed files, both well formatted, has ended
C25_Witness ==
    /\ pc = "idle" /\ settled /\ ~HasViolations
    /\ Len(getChangedCSharpFiles) = 2
    /\ violationsFound = "false" /\ ~failed

(***************************************************************************)
(* C26.  Under an event without pull_request, run() and each of            *)
(* getExistingComments, createViolationComments and resolveFixedComments   *)
(* return without having called the GitHub API or the formatter: the store *)
(* is as it was, nothing was fetched, no output is set and the run is not  *)
(* marked failed.                                                          *)
(***************************************************************************)
C26_OnlyOnPullRequest ==
    (genPc = "returned" /\ ~arg.context.pull_request) =>
        /\ result.api = <<>> /\ ~result.formatter
        /\ calls = <<>> /\ comments = arg.store
        /\ existingComments = <<>>
        /\ violationsFound = "" /\ ~failed

\* run() has returned under such an event although a.cs has a violation and
\* the store holds a comment
C26_Witness ==
    /\ genPc = "returned" /\ ~arg.context.pull_request /\ arg.fn = "run"
    /\ HasViolations /\ arg.store # <<>>

(***************************************************************************)
(* C28.  Under a pull request event getChangedCSharpFiles returns, in the  *)
(* order of the listing, the path, sha and status of exactly the listed    *)
(* files whose name ends in .cs or .csx and whose status is not            *)
(* 'removed'; under any other event it raises an error, having listed      *)
(* nothing.                                                                *)
(***************************************************************************)
\* the name ends in .cs or in .csx, read off its last characters
IsCSharpName(name) ==
    LET n == Len(name)
    IN  \/ n >= 3 /\ name[n - 2] = "." /\ name[n - 1] = "c" /\ name[n] = "s"
        \/ n >= 4 /\ name[n - 3] = "." /\ name[n - 2] = "c" /\ name[n - 1] = "s"
                  /\ name[n] = "x"

\* the places in the listing of the files to be returned
Wanted(files) ==
    {i \in 1..Len(files) : IsCSharpName(files[i].filename) /\ files[i].status # "removed"}

\* the k-th smallest member of a set of numbers
Kth(S, k) == CHOOSE i \in S : Cardinality({j \in S : j < i}) = k - 1

C28_ChangedCSharpFiles ==
    genPc = "listed" =>
        IF arg.context.pull_request
        THEN /\ ~result.threw
             /\ Len(result.value) = Cardinality(Wanted(arg.files))
             /\ \A k \in 1..Len(result.value) :
                    LET file == arg.files[Kth(Wanted(arg.files), k)]
                    IN  result.value[k] = [path |-> file.filename, sha |-> file.sha,
                                           status |-> file.status]
        ELSE result.threw /\ result.api = <<>>

\* of three listed files the first, a removed .cs file, and the second, a
\* text file, are left out and the third, a .csx file, is returned
C28_Witness ==
    /\ genPc = "listed" /\ arg.context.pull_request /\ Len(arg.files) = 3
    /\ arg.files[1].filename = <<"a", ".", "c", "s">> /\ arg.files[1].status = "removed"
    /\ arg.files[2].filename = <<"c", ".", "t", "x", "t">>
    /\ arg.files[3].filename = <<"b", ".", "c", "s", "x">>
    /\ Len(result.value) = 1 /\ result.value[1].sha = 3

(***************************************************************************)
(* C29.  findLineInPRDiff(patch, targetLine), for a line number            *)
(* targetLine >= 1, is targetLine exactly when some chunk of the first     *)
(* file of the parsed patch covers it on its new side, that is             *)
(* newStart <= targetLine < newStart + (the number of its add and normal   *)
(* changes), and 0 otherwise, in particular for a patch of no file.  The   *)
(* lookup leaves the comment store alone.                                  *)
(***************************************************************************)
\* the add and normal changes of a chunk
NewSideCount(chunk) ==
    Cardinality({k \in 1..Len(chunk.changes) : chunk.changes[k] # "del"})

Covers(parsed, targetLine) ==
    /\ Len(parsed) > 0
    /\ \E c \in 1..Len(parsed[1]) :
          /\ parsed[1][c].newStart <= targetLine
          /\ targetLine < parsed[1][c].newStart + NewSideCount(parsed[1][c])

C29_FoundIffCovered ==
    genPc = "found" =>
        /\ result \in {0, arg.targetLine}
        /\ result = arg.targetLine <=> Covers(arg.patch, arg.targetLine)
        /\ comments = <<>> /\ calls = <<>> /\ nextCommentId = 1

\* line 3 is found in the second chunk of the first file, behind a deletion
C29_Witness ==
    /\ genPc = "found" /\ arg.targetLine = 3 /\ result = 3
    /\ arg.patch = <<<<Chunk(1, <<"normal">>), Chunk(3, <<"del", "add">>)>>>>

(***************************************************************************)
(* C31.  Resolved is absorbing: an annotation under which the engine has   *)
(* posted its reply "Formatting has been fixed." is fetched as resolved by *)
(* every later run, and no later reply, delete or update is issued         *)
(* against it.                                                             *)
(***************************************************************************)
C31_ResolvedAbsorbing ==
    [][ remarks = 0 =>
          /\ (pc = "idle" /\ pc' = "resolve") =>
                \A e \in Range(existingComments') :
                    AnsweredFixed(comments, e.id) => e.isResolved
          /\ \A k \in 1..Len(calls') :
                (k > Len(calls) /\ calls'[k].op \in {"reply", "delete", "update"}) =>
                    ~AnsweredFixed(comments, calls'[k].id) ]_vars

(***************************************************************************)
(* C32.  The content of every FormattingHunk of src/unnamed/part_002 is    *)
(* the new side of a window of its parent diff hunk: the window begins 3   *)
(* lines before the change block, or at the first line of the parent if    *)
(* that is nearer, and ends 3 lines after the block, or at the last line   *)
(* of the parent; it holds no line from outside the parent.                *)
(***************************************************************************)
\* the change blocks of a patch with their parent hunks, in the order in which
\* the FormattingHunks are returned
BlocksOf(patch) ==
    Flatten([k \in 1..Len(patch) |->
                [c \in 1..Len(changeBlocks(patch[k].lines)) |->
                    [h |-> patch[k], change |-> changeBlocks(patch[k].lines)[c]]]])

\* the lines of L[from..to] that the new file has
NewSide(L, from, to) ==
    texts(SelectSeq(SubSeq(L, from, to), LAMBDA l : l.tag # "-"))

C32_ContextClamped ==
    (genPc = "done" /\ impl = "p2") =>
        LET blocks == BlocksOf(structuredPatch(originalContent, formattedContent))
        IN  /\ Len(hunks) = Len(blocks)
            /\ \A k \in 1..Len(blocks) :
                  LET L == blocks[k].h.lines
                      s == blocks[k].change.startIndex
                      e == blocks[k].change.endIndex
                      from == IF s - 3 < 1 THEN 1 ELSE s - 3
                      to == IF e + 3 > Len(L) THEN Len(L) ELSE e + 3
                  IN  /\ 1 <= from /\ from <= s /\ e <= to /\ to <= Len(L)
                      /\ hunks[k].content = join(NewSide(L, from, to))

\* two change blocks of one diff hunk: the window of the first is cut at the
\* first line of the hunk, the second has more than 3 context lines before it
C32_Witness ==
    /\ genPc = "done" /\ impl = "p2" /\ Len(hunks) = 2
    /\ LET blocks == BlocksOf(structuredPatch(originalContent, formattedContent))
       IN  /\ Len(blocks) = 2
           /\ blocks[1].h = blocks[2].h
           /\ blocks[1].change.startIndex = 1
           /\ blocks[2].change.startIndex - blocks[1].change.endIndex > 4
           /\ blocks[2].change.endIndex = Len(blocks[2].h.lines)

(***************************************************************************)
(* C33.  The anchor lines of the FormattingHunks generateFormattingHunks   *)
(* returns are strictly increasing: no two hunks of a file address the     *)
(* same line.                                                              *)
(***************************************************************************)
C33_DistinctAnchors ==
    genPc = "done" =>
        \A k \in 1..(Len(hunks) - 1) : hunks[k].lineNumber < hunks[k + 1].lineNumber

(***************************************************************************)
(* C34.  Whenever the original content differs from the formatted content, *)
(* generateFormattingHunks returns at least one FormattingHunk for every   *)
(* diff hunk that has a changed line, one whose only changes are deletions *)
(* included, and every anchor n is a line of the formatted file:           *)
(* 1 <= n <= number of lines of the formatted file.                        *)
(***************************************************************************)
\* the hunks returned for a diff hunk are those that carry its range of
\* original lines; every diff hunk has a range of its own
HunksFor(h) ==
    {k \in 1..Len(hunks) :
        hunks[k].originalLineRange = [start |-> h.oldStart, end |-> h.oldStart + h.oldLines - 1]}

C34_EveryViolationExtractable ==
    (genPc = "done" /\ originalContent # formattedContent) =>
        LET patch == structuredPatch(originalContent, formattedContent)
        IN  /\ Len(patch) > 0
            /\ \A k \in 1..Len(patch) :
                  (\E i \in 1..Len(patch[k].lines) : patch[k].lines[i].tag # " ")
                      => HunksFor(patch[k]) # {}
            /\ \A k \in 1..Len(hunks) :
                  1 <= hunks[k].lineNumber /\ hunks[k].lineNumber <= Len(formattedContent)

(***************************************************************************)
(* C35.  A comment of comment-manager.ts is created at a line that, in the *)
(* head file the PR patch numbers, belongs to the changed section its      *)
(* suggestion covers, also when an earlier formatting change of the file   *)
(* added or removed lines.                                                 *)
(***************************************************************************)
\* the lines of the head (original) file from the first to the last changed
\* line of a diff hunk; for a section that only adds lines, the two lines the
\* addition lies between
SectionLines(h) ==
    LET L == h.lines
        CI == {i \in 1..Len(L) : L[i].tag # " "}
        within == {h.oldStart + OldCount(L, i - 1) :
                      i \in {j \in Min(CI)..Max(CI) : L[j].tag # "+"}}
        before == h.oldStart + OldCount(L, Min(CI) - 1) - 1
    IN  IF within # {} THEN within ELSE {before, before + 1}

C35_CoordinateSpace ==
    (genPc = "annotated" /\ impl = "cm") =>
        LET patch == structuredPatch(originalContent, formattedContent)
        IN  \A c \in Range(comments) :
                \A k \in 1..Len(patch) : \A j \in HunksFor(patch[k]) :
                    (c.line = hunks[j].lineNumber /\ c.body.suggestion = hunks[j].content)
                        => c.line \in SectionLines(patch[k])

(***************************************************************************)
(* C36.  Every comment createViolationComments creates has a body with the *)
(* marker and the path it was created for, and getExistingComments, on the *)
(* store as the creation leaves it and at the start of the next run,       *)
(* returns it as an unresolved comment of the action with the same path    *)
(* and line.                                                               *)
(***************************************************************************)
\* a list of fetched comments has the comment as an unresolved one
Recognised(fetched, id, path, line) ==
    \E e \in Range(fetched) : e.id = id /\ e.path = path /\ e.line = line /\ ~e.isResolved

\* the comments of the store that createViolationComments created: they carry
\* its template and have a line (a comment of a reviewer that part_002 has
\* updated with the template has none)
Created(store) ==
    {c \in Range(store) :
        c.body # NullBody /\ c.body.text = explanation(impl) /\ c.line # Undefined}

C36_CreateRecogniseRoundTrip ==
    [][ /\ \A k \in 1..Len(calls') :
              (k > Len(calls) /\ calls'[k].op = "create" /\ calls'[k].ok) =>
                  \E c \in Range(comments') :
                      /\ c.id = calls'[k].id
                      /\ c.body.marker = COMMENT_MARKER /\ c.body.fix = calls'[k].path
                      /\ Recognised(getExistingComments(comments'), c.id, calls'[k].path,
                                    calls'[k].line)
        /\ (pc = "idle" /\ pc' = "resolve") =>
              \A c \in Created(comments) :
                  Recognised(existingComments', c.id, c.path, c.line) ]_vars

\* the run after the one that created comment 1 at line 2 of b.cs has fetched it
C36_Witness ==
    /\ pc = "resolve" /\ repeat
    /\ \E c \in Created(comments) :
          /\ c.id = 1 /\ c.path = "b.cs" /\ c.line = 2
          /\ Recognised(existingComments, 1, "b.cs", 2)

====
